---- MODULE Spec2Model ----
(***************************************************************************)
(* A model of the streaming resampler core of math/myriotamath.h:          *)
(*   - CircularBuffer<T>          (history buffer, lines 404-452)          *)
(*   - Resample<T>                (filter geometry and output window,      *)
(*                                 lines 454-484)                          *)
(*   - myriota_clip_16            (saturating clip, lines 380-385)         *)
(*   - Resample16 / Resample16shift normalisation (lines 497-525)          *)
(*   - myriota_rational_approximation (declared at lines 286-289)          *)
(*                                                                         *)
(* Doubles are modelled as exact rationals [n, d] with d > 0: the model    *)
(* idealises floating-point rounding away.  64-bit counters are modelled   *)
(* as unbounded integers kept far below 2^63 by the bounds.                *)
(***************************************************************************)
EXTENDS Integers, Sequences, FiniteSets, TLC

VARIABLES
    size,       \* CircularBuffer::size  (const unsigned int)
    mask,       \* CircularBuffer::mask  (const unsigned int)
    buf,        \* CircularBuffer::buf   (std::vector<T>), indexed 0..size-1
    N,          \* CircularBuffer::N     (uint64_t push count)
    geo,        \* the const members of Resample<T> (W, r, gamma, ...), or NoGeo
    req,        \* constructor arguments of the buffer: [size, init]
    hist,       \* history: the sequence of all values given to push
    nsets,      \* history: number of set() calls that stored a value
    last,       \* history: the last call and its outcome
    calc        \* the call frame of the pure function under check, or NoCalc

vars == <<size, mask, buf, N, geo, req, hist, nsets, last, calc>>

-----------------------------------------------------------------------------
(* Bounds of the model *)

MaxReq == 2          \* largest requested size of a stand-alone buffer
MaxPush == 4         \* pushes on a stand-alone buffer
NumSamples == 2      \* distinct sample values given to push/set
MaxSets == 1         \* set() calls that store a value
IndexSlack == 1      \* how far outside the window set() is tried

MaxPQ == 4           \* largest numerator / denominator of the rate ratio r
MaxWNum == 4         \* window half-widths W are MaxWNum values k / WDen
WDen == 2
MaxResPush == 12     \* pushes on a resampler
ClipSpread == 5      \* accumulator values tried on each side of a clip boundary
MaxAlpha == 9        \* largest fixed-point scale alpha
MaxAcc == 20         \* largest accumulator magnitude normalised by alpha
MaxXNum == 5         \* ratios x = a / b approximated, a in 1..MaxXNum
MaxXDen == 5         \*                                 b in 1..MaxXDen
MaxTolNum == 3       \* tolerances are t / TolDen, t in 0..MaxTolNum
TolDen == 10
MaxQmax == 4         \* largest maximum denominator
MaxK == 4            \* largest convergent budget

Samples == 1..NumSamples
InitValue == 0       \* the caller-supplied init / zero element

-----------------------------------------------------------------------------
(* Integer helpers *)

Max(a, b) == IF a >= b THEN a ELSE b
Abs(a) == IF a < 0 THEN -a ELSE a

RECURSIVE Pow2(_)
Pow2(k) == IF k = 0 THEN 1 ELSE 2 * Pow2(k - 1)

\* a & m for a two's-complement a of any sign and m >= 0 (the unsigned mask
\* converted to the wider signed type): floor-division by 2 walks the
\* sign-extended bits of a
RECURSIVE BitAnd(_, _)
BitAnd(a, m) ==
    IF m = 0 THEN 0
    ELSE 2 * BitAnd(a \div 2, m \div 2) + (a % 2) * (m % 2)

\* Returns smallest power of 2 greater than or equal to this integer
RECURSIVE GreaterPow2From(_, _)
GreaterPow2From(x, c) == IF c >= x THEN c ELSE GreaterPow2From(x, 2 * c)
myriota_greater_power_of_two(x) == GreaterPow2From(x, 1)

\* Greatest common divisor between two integers
RECURSIVE gcd(_, _)
gcd(a, b) == IF b = 0 THEN Abs(a) ELSE gcd(b, a % Abs(b))

-----------------------------------------------------------------------------
(* double arithmetic, modelled exactly on rationals [n, d], d > 0 *)

Rat(n, d) == [n |-> n, d |-> d]
RInt(i) == Rat(i, 1)
RNeg(a) == Rat(-a.n, a.d)
RAdd(a, b) == Rat(a.n * b.d + b.n * a.d, a.d * b.d)
RSub(a, b) == RAdd(a, RNeg(b))
RMul(a, b) == Rat(a.n * b.n, a.d * b.d)
RDiv(a, b) == IF b.n > 0 THEN Rat(a.n * b.d, a.d * b.n)
                         ELSE Rat(-(a.n * b.d), a.d * (-b.n))
RLess(a, b) == a.n * b.d < b.n * a.d
RAbs(a) == Rat(Abs(a.n), a.d)
fmin(a, b) == IF RLess(b, a) THEN b ELSE a
fmax(a, b) == IF RLess(a, b) THEN b ELSE a
floor(a) == a.n \div a.d
ceil(a) == -((-a.n) \div a.d)

-----------------------------------------------------------------------------
(* CircularBuffer<T> *)

\* CircularBuffer(unsigned int size, T init)
ConstructedSize(s) == myriota_greater_power_of_two(s + 1)
ConstructedMask(sz) == sz - 1
ConstructedBuf(sz, init) == [i \in 0..(sz - 1) |-> init]

\* uint64_t pushed() const { return N; }
pushed == N

\* int64_t maxn() const { return N - 1; }  and  minn() const { return N - size; }
\* (computed modulo 2^64 and read back as int64_t: the signed difference)
maxn == N - 1
minn_clamped == IF N < size THEN 0 ELSE N - size
minn == N - size

\* operator() indexing with the magnitude of n
ReadOfMagnitude(b, m, n) == b[BitAnd(Abs(n), m)]

\* const T &operator()(const int64_t n) const { return buf[n & mask]; }
ReadOf(b, m, n) == b[BitAnd(n, m)]
Read(n) == ReadOf(buf, mask, n)

\* push with the count advanced before the store
PushOpPreIncrement(elem) ==
    /\ buf' = [buf EXCEPT ![BitAnd(N + 1, mask)] = elem]
    /\ N' = N + 1
    /\ hist' = Append(hist, elem)
    /\ last' = [op |-> "push", n |-> N, err |-> "none"]
    /\ UNCHANGED <<size, mask, req, nsets>>

\* the buffer part of push(elem): buf[N & mask] = elem; N++
PushOp(elem) ==
    /\ buf' = [buf EXCEPT ![BitAnd(N, mask)] = elem]
    /\ N' = N + 1
    /\ hist' = Append(hist, elem)
    /\ last' = [op |-> "push", n |-> N, err |-> "none"]
    /\ UNCHANGED <<size, mask, req, nsets>>

\* set(n, v) without its range check
SetUnchecked(n, v) ==
    /\ buf' = [buf EXCEPT ![BitAnd(n, mask)] = v]
    /\ nsets' = nsets + 1
    /\ last' = [op |-> "set", n |-> n, err |-> "none"]
    /\ UNCHANGED <<size, mask, N, req, hist>>

\* void set(const int64_t n, const T &v)
SetOp(n, v) ==
    IF n >= minn /\ n <= maxn
    THEN /\ buf' = [buf EXCEPT ![BitAnd(n, mask)] = v]
         /\ nsets' = nsets + 1
         /\ last' = [op |-> "set", n |-> n, err |-> "none"]
         /\ UNCHANGED <<size, mask, N, req, hist>>
    ELSE \* throw std::out_of_range
         /\ last' = [op |-> "set", n |-> n, err |-> "out_of_range"]
         /\ UNCHANGED <<size, mask, buf, N, req, hist, nsets>>

NoGeo == [kind |-> "none"]
NoCalc == [fn |-> "none"]
NoLast == [op |-> "new", n |-> 0, err |-> "none"]

\* a stand-alone buffer, just constructed
BufInit ==
    /\ \E s \in 0..MaxReq :
         /\ req = [size |-> s, init |-> InitValue]
         /\ size = ConstructedSize(s)
    /\ mask = ConstructedMask(size)
    /\ buf = ConstructedBuf(size, InitValue)
    /\ N = 0
    /\ geo = NoGeo
    /\ hist = <<>>
    /\ nsets = 0
    /\ last = NoLast
    /\ calc = NoCalc

BufPush ==
    /\ N < MaxPush
    /\ \E v \in Samples : PushOp(v)
    /\ UNCHANGED <<geo, calc>>

\* (MaxSets caps the calls that store a value; rejected calls stay possible)
BufSet ==
    /\ \E n \in (minn - IndexSlack)..(maxn + IndexSlack) :
         /\ nsets < MaxSets \/ ~(n >= minn /\ n <= maxn)
         /\ \E v \in Samples : SetOp(n, v)
    /\ UNCHANGED <<geo, calc>>

BufNext == BufPush \/ BufSet

SpecBuf == BufInit /\ [][BufNext]_vars

-----------------------------------------------------------------------------
(* Resample<T> *)

\* the member initialisers of Resample(in_rate, out_rate, W, zero), with
\* r = p/q the reduced ratio returned by myriota_rational_approximation
ResGeometry(p, q, W) ==
    LET gamma == RDiv(RMul(RInt(1), RInt(p)), RInt(q))
        xi == IF p > q THEN p ELSE q
    IN  [kind |-> "resample",
         W |-> W,
         r |-> [p |-> p, q |-> q],
         gamma |-> gamma,
         kappa |-> fmin(RInt(1), gamma),
         delta |-> fmax(RInt(1), gamma),
         xi |-> xi,
         gmin |-> ceil(RMul(RInt(-xi), W)),
         gmax |-> floor(RMul(RInt(xi), W))]

\* the size asked of the buffer with one slot less: ceil((2 * W) / kappa)
ResRequestedSizeShort(g) == ceil(RDiv(RMul(RInt(2), g.W), g.kappa))

\* the size asked of the buffer a: ceil((2 * W) / kappa + 1)
ResRequestedSize(g) == ceil(RAdd(RDiv(RMul(RInt(2), g.W), g.kappa), RInt(1)))

\* minn() with floor in place of ceil
OutMinFloor(am) ==
    floor(RAdd(RMul(geo.gamma, RInt(am - size)), RMul(geo.delta, geo.W)))

\* minn() const { return ceil(gamma * (a.maxn() - a.size) + delta * W); }
OutMin(am) ==
    ceil(RAdd(RMul(geo.gamma, RInt(am - size)), RMul(geo.delta, geo.W)))

\* maxn() const { return floor(gamma * (a.maxn() - 1) - delta * W); }
OutMax(am) ==
    floor(RSub(RMul(geo.gamma, RInt(am - 1)), RMul(geo.delta, geo.W)))

Resample_minn == OutMin(maxn)
Resample_maxn == OutMax(maxn)

\* int64_t pushed() const { return a.pushed(); }
Resample_pushed == pushed

\* the reduced positive ratios and the window half-widths of the model
Ratios == {pq \in (1..MaxPQ) \X (1..MaxPQ) : gcd(pq[1], pq[2]) = 1}
Widths == {Rat(k, WDen) : k \in 1..MaxWNum}
ResSamples == {1}

\* a resampler, just constructed
ResInit ==
    /\ \E pq \in Ratios : \E W \in Widths : geo = ResGeometry(pq[1], pq[2], W)
    /\ req = [size |-> ResRequestedSize(geo), init |-> InitValue]
    /\ size = ConstructedSize(req.size)
    /\ mask = ConstructedMask(size)
    /\ buf = ConstructedBuf(size, InitValue)
    /\ N = 0
    /\ hist = <<>>
    /\ nsets = 0
    /\ last = NoLast
    /\ calc = NoCalc

\* void push(T x) { a.push(x); }
ResPush ==
    /\ N < MaxResPush
    /\ \E x \in ResSamples : PushOp(x)
    /\ UNCHANGED <<geo, calc>>

ResNext == ResPush

SpecRes == ResInit /\ [][ResNext]_vars

-----------------------------------------------------------------------------
(* Claims about CircularBuffer<T>, checked under SpecBuf *)

\* C2 (as stated): the valid window holds capacity indices once
\* pushed() >= capacity, and pushed() indices before that
C2_WindowSizeAsStated ==
    /\ pushed >= size => maxn - minn + 1 = size
    /\ pushed < size => maxn - minn + 1 = pushed

\* C2 (amended): the valid window [minn(), maxn()] holds exactly capacity
\* indices at every push count, also while pushed() < capacity
C2_WindowIsCapacity == maxn - minn + 1 = size

C2_PartlyFilled == pushed > 0 /\ pushed < size /\ minn < 0

SmallestPow2Geq(s) ==
    CHOOSE c \in {Pow2(k) : k \in 0..(s + 1)} :
        /\ c >= s
        /\ \A d \in {Pow2(k) : k \in 0..(s + 1)} : d >= s => c <= d

\* C3: a new buffer's capacity is the smallest power of two >= the requested
\* size (capacity = s when s is a power of two), and mask = capacity - 1
C3_CapacityIsSmallestPow2 ==
    /\ size = SmallestPow2Geq(req.size)
    /\ mask = size - 1

\* C4: set(n, v) with n outside [minn(), maxn()] throws out_of_range and
\* leaves the push count, the window bounds and every readable value as
\* they were, after any pushes and writes
C4_RejectedWriteChangesNothing ==
    [][ (last'.op = "set" /\ ~(last'.n >= minn /\ last'.n <= maxn))
          => /\ last'.err = "out_of_range"
             /\ pushed' = pushed
             /\ minn' = minn
             /\ maxn' = maxn
             /\ \A i \in minn..maxn :
                    ReadOf(buf', mask', i) = ReadOf(buf, mask, i) ]_vars

C4_WriteRejected ==
    /\ last.op = "set" /\ last.err = "out_of_range"
    /\ pushed > 0 /\ nsets > 0

C5_Retained ==
    nsets = 0 =>
        /\ Len(hist) = pushed
        /\ \A n \in Max(0, pushed - size)..(pushed - 1) : Read(n) = hist[n + 1]

C5_PushAdvances ==
    last'.op = "push" => (last'.err = "none" /\ pushed' = pushed + 1)

\* C5: push succeeds and advances pushed() by exactly 1; with no set() made,
\* read(n) for max(0, N - capacity) <= n <= N - 1 is the value given to the
\* (n+1)-th push
C5_PushKeepsRecent == []C5_Retained /\ [][C5_PushAdvances]_vars

C5_Wrapped == nsets = 0 /\ size > 1 /\ pushed > size

\* C11: while pushed() < capacity and no set() has been made, the indices
\* N - capacity .. -1 are inside [minn(), maxn()] and read(n) at each of them
\* is the init value given at construction, never a pushed element; once
\* pushed() >= capacity no negative index is valid
C11_DefaultBeforeStart ==
    /\ (nsets = 0 /\ pushed < size) =>
          /\ minn = pushed - size
          /\ \A n \in (pushed - size)..(-1) :
                /\ n >= minn /\ n <= maxn
                /\ Read(n) = req.init
                /\ Read(n) \notin Samples
    /\ pushed >= size => minn >= 0

C11_PartlyFilledDefault ==
    /\ nsets = 0 /\ pushed >= 2 /\ pushed < size
    /\ Read(-1) = req.init /\ Read(0) \in Samples

-----------------------------------------------------------------------------
(* Claims about Resample<T>, checked under SpecRes *)

\* the input indices m whose tap offset k = q*n - p*m lies in [gmin, gmax]
NeededInputs(n) ==
    LET qn == geo.r.q * n
        lo == ceil(Rat(qn - geo.gmax, geo.r.p)) - 1
        hi == floor(Rat(qn - geo.gmin, geo.r.p)) + 1
    IN  {m \in lo..hi : qn - geo.r.p * m >= geo.gmin /\ qn - geo.r.p * m <= geo.gmax}

\* C1: at every push count, for every output index n in
\* [Resample::minn(), Resample::maxn()], every input index the kernel needs
\* for n lies in the buffer's valid window [a.minn(), a.maxn()]
C1_KernelInsideWindow ==
    \A n \in Resample_minn..Resample_maxn :
        \A m \in NeededInputs(n) : m >= minn /\ m <= maxn

\* C6 (as stated): once enough history has accumulated (the buffer has been
\* filled) the output window is non-empty at every later push count
C6_NonEmptyOnceFilled == pushed >= size => Resample_maxn >= Resample_minn

\* C6 (amended): for p >= q the output window is non-empty at every push
\* count; for any ratio the window bounds after q more pushes are the bounds
\* now shifted by p (so an empty window recurs every q pushes, however many
\* samples were pushed), and an empty window is empty by exactly one index
C6_NonEmptyWhenUpsampling ==
    /\ geo.r.p >= geo.r.q => Resample_maxn >= Resample_minn
    /\ Resample_maxn >= Resample_minn - 1
    /\ OutMin(maxn + geo.r.q) = Resample_minn + geo.r.p
    /\ OutMax(maxn + geo.r.q) = Resample_maxn + geo.r.p

C6_TightUpsampling ==
    /\ geo.r.p >= geo.r.q /\ pushed >= size
    /\ Resample_maxn - Resample_minn <= 1

IsCeilOf(n, num, den) == den * n >= num /\ den * (n - 1) < num
IsFloorOf(n, num, den) == den * n <= num /\ den * (n + 1) > num

\* minOutputIndex = ceil(gamma (maxValidIndex - capacity) + delta W) and
\* maxOutputIndex = floor(gamma (maxValidIndex - 1) - delta W), over the
\* common denominator q * W.d (gamma = p/q, delta = xi/q)
C7_MatchesFormulas ==
    LET den == geo.r.q * geo.W.d
    IN  /\ IsCeilOf(Resample_minn,
                    geo.r.p * geo.W.d * (maxn - size) + geo.xi * geo.W.n, den)
        /\ IsFloorOf(Resample_maxn,
                     geo.r.p * geo.W.d * (maxn - 1) - geo.xi * geo.W.n, den)

C7_Step ==
    last'.op = "push" =>
        /\ Resample_pushed' = Resample_pushed + 1
        /\ Resample_minn' >= Resample_minn
        /\ Resample_maxn' >= Resample_maxn

\* C7: every push leaves Resample::minn() and Resample::maxn() at or above
\* their values before it, and at every push count they equal
\* ceil(gamma (maxValidIndex - capacity) + delta W) and
\* floor(gamma (maxValidIndex - 1) - delta W)
C7_WindowAdvances == []C7_MatchesFormulas /\ [][C7_Step]_vars

C7_WindowMoved ==
    /\ pushed > size
    /\ Resample_minn > OutMin(-1)
    /\ Resample_maxn > OutMax(-1)

-----------------------------------------------------------------------------
(* myriota_clip_16 *)

Shl(a, k) == a * Pow2(k)
Int32Max == (Pow2(30) - 1) + Pow2(30)
Int32Min == -Int32Max - 1

\* the conversion of a 32-bit value to int16_t: its low 16 bits, signed
ToInt16(v) ==
    LET low == v % Pow2(16)
    IN  IF low >= Pow2(15) THEN low - Pow2(16) ELSE low

\* the clip with its upper bound off by one
myriota_clip_16_above(x) ==
    IF x > Shl(1, 15) THEN ToInt16(Shl(1, 15) - 1)
    ELSE IF x < -Shl(1, 15) THEN ToInt16(-Shl(1, 15))
    ELSE ToInt16(x)

\* static inline int16_t myriota_clip_16(const int32_t x)
myriota_clip_16(x) ==
    IF x > Shl(1, 15) - 1 THEN ToInt16(Shl(1, 15) - 1)
    ELSE IF x < -Shl(1, 15) THEN ToInt16(-Shl(1, 15))
    ELSE ToInt16(x)

ClipInputs ==
    {Int32Min, Int32Min + 1, Int32Max - 1, Int32Max}
    \cup {c + e : c \in {-Pow2(16), -Pow2(15), 0, Pow2(15), Pow2(16)},
                  e \in (-ClipSpread)..ClipSpread}

ClipInit ==
    /\ \E x \in ClipInputs : calc = [fn |-> "clip", pc |-> "call", x |-> x]
    /\ size = 1 /\ mask = 0 /\ buf = ConstructedBuf(1, InitValue) /\ N = 0
    /\ geo = NoGeo /\ req = [size |-> 0, init |-> InitValue]
    /\ hist = <<>> /\ nsets = 0 /\ last = NoLast

ClipCall ==
    /\ calc.pc = "call"
    /\ calc' = [calc EXCEPT !.pc = "ret"] @@ [ret |-> myriota_clip_16(calc.x)]
    /\ UNCHANGED <<size, mask, buf, N, geo, req, hist, nsets, last>>

ClipNext == ClipCall

SpecClip == ClipInit /\ [][ClipNext]_vars

\* C8: the clip saturates and never wraps: the 16-bit lane is 32767 for
\* x > 32767, -32768 for x < -32768 and x otherwise, so it always lies in
\* [-32768, 32767]
C8_ClipSaturates ==
    calc.pc = "ret" =>
        /\ calc.x > 32767 => calc.ret = 32767
        /\ calc.x < -32768 => calc.ret = -32768
        /\ (calc.x >= -32768 /\ calc.x <= 32767) => calc.ret = calc.x
        /\ calc.ret >= -32768 /\ calc.ret <= 32767

C8_ClippedAbove == calc.pc = "ret" /\ calc.x = 32768 /\ calc.ret = 32767

-----------------------------------------------------------------------------
(* Resample16 / Resample16shift: normalising the 32-bit accumulator lane *)

\* floor(log2(alpha)) + 1: the bit length of alpha
BitLength(alpha) ==
    CHOOSE k \in 0..alpha : Pow2(k) > alpha /\ (k = 0 \/ Pow2(k - 1) <= alpha)

\* Resample16shift: s(floor(log2(alpha)))
ShiftOf(alpha) ==
    CHOOSE k \in 0..alpha : Pow2(k) <= alpha /\ Pow2(k + 1) > alpha

\* integer division of int32_t lanes: the quotient truncated toward zero
CDiv(a, b) == IF a >= 0 THEN a \div b ELSE -((-a) \div b)

\* a >> k on a signed lane: the arithmetic shift, rounding toward minus infinity
Sar(a, k) == a \div Pow2(k)

\* the output lane of Resample16::operator() and Resample16shift::operator()
Resample16_lane(acc, alpha) == myriota_clip_16(CDiv(acc, alpha))
Resample16shift_lane(acc, s) == myriota_clip_16(Sar(acc, s))

IsPow2(a) == \E k \in 0..a : Pow2(k) = a

NormInit ==
    /\ \E alpha \in 1..MaxAlpha : \E acc \in (-MaxAcc)..MaxAcc :
         calc = [fn |-> "normalise", pc |-> "call", alpha |-> alpha,
                 s |-> ShiftOf(alpha), acc |-> acc]
    /\ size = 1 /\ mask = 0 /\ buf = ConstructedBuf(1, InitValue) /\ N = 0
    /\ geo = NoGeo /\ req = [size |-> 0, init |-> InitValue]
    /\ hist = <<>> /\ nsets = 0 /\ last = NoLast

NormCall ==
    /\ calc.pc = "call"
    /\ calc' = [calc EXCEPT !.pc = "ret"]
               @@ [div |-> CDiv(calc.acc, calc.alpha),
                   shr |-> Sar(calc.acc, calc.s),
                   lane |-> Resample16_lane(calc.acc, calc.alpha),
                   lane_shift |-> Resample16shift_lane(calc.acc, calc.s)]
    /\ UNCHANGED <<size, mask, buf, N, geo, req, hist, nsets, last>>

NormNext == NormCall

SpecShift == NormInit /\ [][NormNext]_vars

-----------------------------------------------------------------------------
(* myriota_rational_approximation *)

\* construct rational number equivalent to a/b. Numerator and denominator
\* of resulting rational will always be relatively prime.
make_myriota_rational(a, b) ==
    LET g == gcd(a, b)
        sgn == IF b < 0 THEN -1 ELSE 1
    IN  [p |-> sgn * (a \div g), q |-> sgn * (b \div g)]

\* |x - h1/k1| of the convergent produced last
RatError == RAbs(RSub(calc.x, Rat(calc.h1, calc.k1)))

\* the stop test with the tolerance comparison reversed
RatStopCondReversed ==
    \/ RLess(calc.tol, RatError)
    \/ calc.k1 > calc.qmax
    \/ calc.i = calc.k

\* stop at the first convergent with |x - p/q| < tol, or whose denominator
\* exceeds qmax, or that is the k-th
RatStopCond ==
    \/ RLess(RatError, calc.tol)
    \/ calc.k1 > calc.qmax
    \/ calc.i = calc.k

RatInputs == {Rat(a, b) : a \in 1..MaxXNum, b \in 1..MaxXDen}
RatTols == {Rat(t, TolDen) : t \in 0..MaxTolNum}

\* the call: no convergent produced yet; n/d is what is left to expand
RatInit ==
    /\ \E x \in RatInputs : \E tol \in RatTols :
         \E qmax \in 1..MaxQmax : \E k \in 1..MaxK :
           calc = [fn |-> "rational_approximation", pc |-> "run",
                   x |-> x, tol |-> tol, qmax |-> qmax, k |-> k,
                   i |-> 0, h0 |-> 0, k0 |-> 1, h1 |-> 1, k1 |-> 0,
                   n |-> x.n, d |-> x.d, ret |-> [p |-> 0, q |-> 0]]
    /\ size = 1 /\ mask = 0 /\ buf = ConstructedBuf(1, InitValue) /\ N = 0
    /\ geo = NoGeo /\ req = [size |-> 0, init |-> InitValue]
    /\ hist = <<>> /\ nsets = 0 /\ last = NoLast

\* produce the next convergent of the continued fraction of x
RatStep ==
    /\ calc.pc = "run"
    /\ calc.d # 0
    /\ calc.i = 0 \/ ~RatStopCond
    /\ LET a == calc.n \div calc.d
       IN  calc' = [calc EXCEPT !.i = calc.i + 1,
                                !.h0 = calc.h1, !.k0 = calc.k1,
                                !.h1 = a * calc.h1 + calc.h0,
                                !.k1 = a * calc.k1 + calc.k0,
                                !.n = calc.d, !.d = calc.n - a * calc.d]
    /\ UNCHANGED <<size, mask, buf, N, geo, req, hist, nsets, last>>

\* return the convergent produced last: a stop test holds, or the expansion
\* of x has ended at the exact convergent
RatReturn ==
    /\ calc.pc = "run"
    /\ calc.i >= 1
    /\ RatStopCond \/ calc.d = 0
    /\ calc' = [calc EXCEPT !.pc = "ret",
                            !.ret = make_myriota_rational(calc.h1, calc.k1)]
    /\ UNCHANGED <<size, mask, buf, N, geo, req, hist, nsets, last>>

RatNext == RatStep \/ RatReturn

SpecRat == RatInit /\ [][RatNext]_vars

\* the j-th convergent of n/d, or 0/0 when the expansion has fewer than j
RECURSIVE ConvergentFrom(_, _, _, _, _, _, _)
ConvergentFrom(n, d, j, h0, k0, h1, k1) ==
    IF j = 0 THEN [p |-> h1, q |-> k1]
    ELSE IF d = 0 THEN [p |-> 0, q |-> 0]
    ELSE LET a == n \div d
         IN  ConvergentFrom(d, n - a * d, j - 1, h1, k1,
                            a * h1 + h0, a * k1 + k0)
KthConvergent(x, k) == ConvergentFrom(x.n, x.d, k, 0, 1, 1, 0)

RatLowestTerms == calc.ret.q > 0 /\ gcd(Abs(calc.ret.p), calc.ret.q) = 1
RatWithinTol ==
    RLess(RAbs(RSub(calc.x, Rat(calc.ret.p, calc.ret.q))), calc.tol)
RatBudgetExhausted == calc.ret = KthConvergent(calc.x, calc.k)
RatExact == calc.ret.p * calc.x.d = calc.x.n * calc.ret.q

====
